---- MODULE Spec2Model ----
(***************************************************************************)
(* Model of adbw (src/src/devtools/adbw.py): wireless ADB connection setup *)
(* with device selection and reverse port forwarding.                      *)
(*                                                                         *)
(* One run of main() is a sequential process; pc is its position.  Every   *)
(* adb invocation, every line printed and every prompt read is appended to *)
(* trace.  Strings that the program parses are sequences of one-character  *)
(* strings; free text (adb output) is a sequence of words.  Time inside    *)
(* _connect is counted in ticks of half a second.                          *)
(***************************************************************************)
EXTENDS Integers, Sequences, FiniteSets, TLC

VARIABLES
    argPort,            \* args.port
    argReverse,         \* args.reverse (characters; empty when absent)
    argIp,              \* args.ip (characters; empty when absent)
    argIpGiven,         \* args.ip is not None: --ip was on the command line
    adbOnPath,          \* shutil.which("adb") finds the executable
    pc,                 \* position in main()
    exitCode,           \* -1 while running, else the process exit status
    reverse_ports,      \* list of <<device_port, host_port>>
    usb_devices,        \* list of serials from _parse_devices
    wireless_targets,   \* set of ip:port identifiers from _parse_devices
    devices,            \* candidates of the selection in progress
    names,              \* display names, parallel to devices
    serial,             \* selected USB serial (empty when unbound)
    ip,                 \* resolved or given address (empty when unbound)
    target,             \* "ip:port" of the session
    device_name,        \* display name (empty sequence = "")
    already_connected,
    iface,              \* index into Ifaces inside _get_device_ip
    now,                \* time.monotonic() relative to entry of _connect
    deadline,
    last_output,
    attempts,           \* connect commands issued by _connect
    ruleIdx,            \* index of the next reverse rule
    result,             \* what the subprocess.run calls of the helper in
                        \* progress came back with (its local r)
    trace               \* adb commands, printed lines and prompt reads

vars == <<argPort, argReverse, argIp, argIpGiven, adbOnPath, pc, exitCode,
          reverse_ports,
          usb_devices, wireless_targets, devices, names, serial, ip, target,
          device_name, already_connected, iface, now, deadline, last_output,
          attempts, ruleIdx, result, trace>>

-----------------------------------------------------------------------------
(* Strings *)

AsciiDigits == <<"0", "1", "2", "3", "4", "5", "6", "7", "8", "9">>

IsAsciiDigit(c) == \E i \in 1..10 : AsciiDigits[i] = c

\* "sup2" stands for U+00B2: str.isdigit() accepts it, int() rejects it.
IsDigitChar(c) == IsAsciiDigit(c) \/ c = "sup2"

DigitVal(c) == (CHOOSE i \in 1..10 : AsciiDigits[i] = c) - 1

\* str.isdigit()
IsDigit(s) == Len(s) > 0 /\ \A i \in 1..Len(s) : IsDigitChar(s[i])

\* int(s) succeeds
IntOk(s) == Len(s) > 0 /\ \A i \in 1..Len(s) : IsAsciiDigit(s[i])

RECURSIVE StrToInt(_)
StrToInt(s) ==
    IF Len(s) = 0 THEN 0
    ELSE 10 * StrToInt(SubSeq(s, 1, Len(s) - 1)) + DigitVal(s[Len(s)])

RECURSIVE IntToStr(_)
IntToStr(n) ==
    IF n < 10 THEN <<AsciiDigits[n + 1]>>
    ELSE Append(IntToStr(n \div 10), AsciiDigits[(n % 10) + 1])

\* position of the first occurrence of character c in s, 0 when absent
IndexOf(s, c) ==
    IF \E i \in 1..Len(s) : s[i] = c
    THEN CHOOSE i \in 1..Len(s) : s[i] = c /\ \A j \in 1..(i - 1) : s[j] # c
    ELSE 0

Contains(s, c) == IndexOf(s, c) # 0

\* s.split(sep)
RECURSIVE Split(_, _)
Split(s, sep) ==
    LET i == IndexOf(s, sep) IN
    IF i = 0 THEN <<s>>
    ELSE <<SubSeq(s, 1, i - 1)>> \o Split(SubSeq(s, i + 1, Len(s)), sep)

\* s.split(sep, 1)
Split1(s, sep) ==
    LET i == IndexOf(s, sep) IN
    IF i = 0 THEN <<s>>
    ELSE <<SubSeq(s, 1, i - 1), SubSeq(s, i + 1, Len(s))>>

\* s.strip()
RECURSIVE Strip(_)
Strip(s) ==
    IF Len(s) = 0 THEN s
    ELSE IF s[1] = " " THEN Strip(Tail(s))
    ELSE IF s[Len(s)] = " " THEN Strip(SubSeq(s, 1, Len(s) - 1))
    ELSE s

\* f"{ip}:{port}"
FormatTarget(addr, port) == addr \o <<":">> \o IntToStr(port)

\* ipaddress.IPv4Address(s) does not raise: four dot-separated decimal
\* octets of at most three digits, each at most 255
ValidIPv4(s) ==
    LET parts == Split(s, ".") IN
    /\ Len(parts) = 4
    /\ \A i \in 1..4 :
        /\ IntOk(parts[i])
        /\ Len(parts[i]) <= 3
        /\ StrToInt(parts[i]) <= 255

\* code points of the characters identifiers are made of, for sorted()
Ord(c) ==
    IF c = "." THEN 46
    ELSE IF IsAsciiDigit(c) THEN 48 + DigitVal(c)
    ELSE IF c = ":" THEN 58
    ELSE 65

\* s < t for Python str
RECURSIVE StrLess(_, _)
StrLess(s, t) ==
    IF Len(t) = 0 THEN FALSE
    ELSE IF Len(s) = 0 THEN TRUE
    ELSE IF Ord(s[1]) # Ord(t[1]) THEN Ord(s[1]) < Ord(t[1])
    ELSE StrLess(Tail(s), Tail(t))

\* sorted(set of str)
RECURSIVE Sorted(_)
Sorted(S) ==
    IF S = {} THEN <<>>
    ELSE LET m == CHOOSE x \in S : \A y \in S \ {x} : StrLess(x, y)
         IN <<m>> \o Sorted(S \ {m})

-----------------------------------------------------------------------------
(* Trace entries *)

Adb(op, ser, arg, tgt, a, b) ==
    [ev |-> "adb", op |-> op, serial |-> ser, arg |-> arg, target |-> tgt,
     a |-> a, b |-> b, name |-> <<>>, text |-> <<>>]

\* an adb call with what came back: exit status rc and output out
AdbGot(op, ser, arg, tgt, a, rc, out) ==
    [ev |-> "adb", op |-> op, serial |-> ser, arg |-> arg, target |-> tgt,
     a |-> a, b |-> rc, name |-> <<>>, text |-> out]

Say(op, nm, tgt, a, txt) ==
    [ev |-> "print", op |-> op, serial |-> <<>>, arg |-> "", target |-> tgt,
     a |-> a, b |-> 0, name |-> nm, text |-> txt]

\* a call of input(); n is the number of candidates named in the prompt
Read(n) ==
    [ev |-> "input", op |-> "input", serial |-> <<>>, arg |-> "", target |-> <<>>,
     a |-> n, b |-> 0, name |-> <<>>, text |-> <<>>]

\* the call of input() that ends the prompt loop: b is 1 when the call raised
\* EOFError or KeyboardInterrupt, text is the line it returned otherwise
LastRead(n, raised, line) ==
    [Read(n) EXCEPT !.b = IF raised THEN 1 ELSE 0, !.text = line]

\* sys.exit(code) / falling off the end of main
Exit(code) == pc' = "done" /\ exitCode' = code

-----------------------------------------------------------------------------
(* Command line *)

PortArgs == {0, 5555, 65536}

IpA == <<"1", "9", "2", ".", "1", "6", "8", ".", "1", ".", "5", "0">>
IpB == <<"1", "0", ".", "0", ".", "0", ".", "5">>

IpArgs ==
    { <<>>,
      IpB,
      <<"1", "0", ".", "0", ".", "0", ".", "2", "5", "6">>,
      <<"1", "0", ".", "0", ".", "5">> }

ReverseArgs ==
    { <<>>,
      <<"3", "0", "0", "0">>,
      <<"3", "0", "0", "0", ",", " ", "8", "0", "8", "0", ":", "9", "0", "9", "0">>,
      <<"0">>,
      <<"3", "0", "0", "0", ",", "a", "b", "c">>,
      <<"3", "0", "0", "0", ",">>,
      <<"8", "0", "8", "0", ":">>,
      <<"1", ":", "2", ":", "3">>,
      <<"3", "0", "0", "0", ",", "8", "0", ":", "6", "5", "5", "3", "6">>,
      <<"3", "0", "0", "0", ",", "sup2">> }

\* lines 185-188
ValidPort(p) == 1 <= p /\ p <= 65535

\* ParseToken without the range check of lines 207-210
ParseToken_NoRange(tok0) ==
    LET tok == Strip(tok0)
        parts == IF Contains(tok, ":") THEN Split1(tok, ":") ELSE <<tok, tok>>
    IN  IF \E i \in 1..2 : ~IsDigit(parts[i])
        THEN [status |-> "invalid", dp |-> 0, hp |-> 0]
        ELSE IF \E i \in 1..2 : ~IntOk(parts[i])
        THEN [status |-> "crash", dp |-> 0, hp |-> 0]
        ELSE [status |-> "ok", dp |-> StrToInt(parts[1]), hp |-> StrToInt(parts[2])]

\* lines 195-210, one token: "ok" with the pair, "invalid" (not digits),
\* "range" (outside 1-65535) or "crash" (int() raises ValueError, uncaught)
ParseToken(tok0) ==
    LET tok == Strip(tok0)
        parts == IF Contains(tok, ":") THEN Split1(tok, ":") ELSE <<tok, tok>>
    IN  IF \E i \in 1..2 : ~IsDigit(parts[i])
        THEN [status |-> "invalid", dp |-> 0, hp |-> 0]
        ELSE IF \E i \in 1..2 : ~IntOk(parts[i])
        THEN [status |-> "crash", dp |-> 0, hp |-> 0]
        ELSE LET dp == StrToInt(parts[1])
                 hp == StrToInt(parts[2])
             IN  IF ValidPort(dp) /\ ValidPort(hp)
                 THEN [status |-> "ok", dp |-> dp, hp |-> hp]
                 ELSE [status |-> "range", dp |-> dp, hp |-> hp]

\* lines 192-211: the loop over args.reverse.split(","); rules is the list
\* reverse_ports holds when the loop ends or exits
RECURSIVE ParseTokens(_, _)
ParseTokens(toks, acc) ==
    IF Len(toks) = 0 THEN [status |-> "ok", rules |-> acc]
    ELSE LET r == ParseToken(Head(toks)) IN
         IF r.status = "ok"
         THEN ParseTokens(Tail(toks), Append(acc, <<r.dp, r.hp>>))
         ELSE [status |-> r.status, rules |-> acc]

ParseReverseArg(arg) ==
    IF Len(arg) = 0 THEN [status |-> "ok", rules |-> <<>>]
    ELSE ParseTokens(Split(arg, ","), <<>>)

Init ==
    /\ argPort \in PortArgs
    /\ argReverse \in ReverseArgs
    /\ argIp \in IpArgs
    /\ argIpGiven \in BOOLEAN
    \* --ip "" is tried with the default port and without -r
    /\ \/ argIpGiven = (Len(argIp) > 0)
       \/ argIpGiven /\ argIp = <<>> /\ argPort = 5555 /\ argReverse = <<>>
    /\ adbOnPath \in BOOLEAN
    /\ pc = "validate_port"
    /\ exitCode = -1
    /\ reverse_ports = <<>>
    /\ usb_devices = <<>>
    /\ wireless_targets = {}
    /\ devices = <<>>
    /\ names = <<>>
    /\ serial = <<>>
    /\ ip = <<>>
    /\ target = <<>>
    /\ device_name = <<>>
    /\ already_connected = FALSE
    /\ iface = 0
    /\ now = 0
    /\ deadline = 0
    /\ last_output = <<>>
    /\ attempts = 0
    /\ ruleIdx = 0
    /\ result = <<>>
    /\ trace = <<>>

\* lines 185-188
ValidatePort ==
    /\ pc = "validate_port"
    /\ IF ValidPort(argPort)
       THEN /\ pc' = "parse_reverse"
            /\ UNCHANGED <<exitCode, trace>>
       ELSE /\ Exit(1)
            /\ trace' = Append(trace, Say("err_port", <<>>, <<>>, argPort, <<>>))
    /\ UNCHANGED <<argPort, argReverse, argIp, argIpGiven, adbOnPath,
                   result,
                   reverse_ports,
                   usb_devices, wireless_targets, devices, names, serial, ip,
                   target, device_name, already_connected, iface, now,
                   deadline, last_output, attempts, ruleIdx>>

\* lines 190-211
ParseReverse ==
    /\ pc = "parse_reverse"
    /\ LET r == ParseReverseArg(argReverse) IN
       /\ reverse_ports' = r.rules
       /\ IF r.status = "ok"
          THEN /\ pc' = "check_adb"
               /\ UNCHANGED <<exitCode, trace>>
          ELSE /\ Exit(1)
               /\ trace' = Append(trace, Say("err_reverse_" \o r.status, <<>>, <<>>, 0, <<>>))
    /\ UNCHANGED <<argPort, argReverse, argIp, argIpGiven, adbOnPath,
                   result,
                   usb_devices, wireless_targets, devices, names, serial, ip,
                   target, device_name, already_connected, iface, now,
                   deadline, last_output, attempts, ruleIdx>>

\* lines 213-216
CheckAdb ==
    /\ pc = "check_adb"
    /\ IF adbOnPath
       THEN /\ pc' = "validate_ip"
            /\ UNCHANGED <<exitCode, trace>>
       ELSE /\ Exit(1)
            /\ trace' = Append(trace, Say("err_no_adb", <<>>, <<>>, 0, <<>>))
    /\ UNCHANGED <<argPort, argReverse, argIp, argIpGiven, adbOnPath,
                   result,
                   reverse_ports,
                   usb_devices, wireless_targets, devices, names, serial, ip,
                   target, device_name, already_connected, iface, now,
                   deadline, last_output, attempts, ruleIdx>>

\* lines 218-224
ValidateIp ==
    /\ pc = "validate_ip"
    /\ IF Len(argIp) = 0 \/ ValidIPv4(argIp)
       THEN /\ pc' = "choose_path"
            /\ UNCHANGED <<exitCode, trace>>
       ELSE /\ Exit(1)
            /\ trace' = Append(trace, Say("err_ip", <<>>, argIp, 0, <<>>))
    /\ UNCHANGED <<argPort, argReverse, argIp, argIpGiven, adbOnPath,
                   result,
                   reverse_ports,
                   usb_devices, wireless_targets, devices, names, serial, ip,
                   target, device_name, already_connected, iface, now,
                   deadline, last_output, attempts, ruleIdx>>

-----------------------------------------------------------------------------
(* Device directory *)

SerA == <<"A", "1">>
SerB == <<"B", "2">>
SerC == <<"C", "3">>
NetA == FormatTarget(IpA, 5555)
NetB == FormatTarget(IpB, 5555)

WDevice == <<"d", "e", "v", "i", "c", "e">>
WOffline == <<"o", "f", "f", "l", "i", "n", "e">>
WUsb == <<"u", "s", "b", ":", "1">>
HeaderLine == <<<<"L", "i", "s", "t">>, <<"o", "f">>, <<"d", "e", "v", "i", "c", "e", "s">>,
                <<"a", "t", "t", "a", "c", "h", "e", "d">>>>

\* results of "adb devices": exit status and stdout, each line already cut
\* into its whitespace-separated fields
ListingResults ==
    { [rc |-> 1, lines |-> <<HeaderLine, <<SerA, WDevice>>, <<>>>>],
      [rc |-> 0, lines |-> <<HeaderLine, <<>>>>],
      [rc |-> 0, lines |-> <<HeaderLine, <<SerC, WOffline>>, <<SerB, WDevice, WUsb>>, <<>>>>],
      [rc |-> 0, lines |-> <<HeaderLine, <<SerA, WDevice>>, <<>>>>],
      [rc |-> 0, lines |-> <<HeaderLine, <<SerA, WDevice>>, <<SerC, WOffline>>,
                             <<SerB, WDevice>>, <<>>>>],
      [rc |-> 0, lines |-> <<HeaderLine, <<NetA, WDevice>>, <<SerA, WDevice>>, <<>>>>],
      [rc |-> 0, lines |-> <<HeaderLine, <<NetA, WDevice>>, <<>>>>],
      [rc |-> 0, lines |-> <<HeaderLine, <<NetA, WDevice>>, <<NetB, WDevice>>, <<>>>>] }

\* line 83 without the comparison with "device"
IsDeviceLine_AnyStatus(parts) == Len(parts) = 2

\* line 83
IsDeviceLine(parts) == Len(parts) = 2 /\ parts[2] = WDevice

\* UsbOf with usb.insert(0, ...) in place of the append of line 87
RECURSIVE UsbOf_Prepend(_)
UsbOf_Prepend(lines) ==
    IF Len(lines) = 0 THEN <<>>
    ELSE LET parts == Head(lines) IN
         IF IsDeviceLine(parts) /\ ~Contains(parts[1], ":")
         THEN UsbOf_Prepend(Tail(lines)) \o <<parts[1]>>
         ELSE UsbOf_Prepend(Tail(lines))

\* lines 79-87: the USB serials, in listing order
RECURSIVE UsbOf(_)
UsbOf(lines) ==
    IF Len(lines) = 0 THEN <<>>
    ELSE LET parts == Head(lines) IN
         IF IsDeviceLine(parts) /\ ~Contains(parts[1], ":")
         THEN <<parts[1]>> \o UsbOf(Tail(lines))
         ELSE UsbOf(Tail(lines))

\* lines 80-85: the set of wireless identifiers
WirelessOf(lines) ==
    { lines[i][1] : i \in { j \in 1..Len(lines) :
                            IsDeviceLine(lines[j]) /\ Contains(lines[j][1], ":") } }

Unknown == <<"U", "n", "k", "n", "o", "w", "n">>

\* results of one "adb shell getprop": timed out, or exit status and stdout
PropResults(value) ==
    { [timeout |-> TRUE, rc |-> 0, stdout |-> <<>>],
      [timeout |-> FALSE, rc |-> 1, stdout |-> <<"?", " ">>],
      [timeout |-> FALSE, rc |-> 0, stdout |-> <<" ">>],
      [timeout |-> FALSE, rc |-> 0, stdout |-> value \o <<" ">>] }

ModelResults == PropResults(<<"P", "7">>)
BrandResults == PropResults(<<"g">>)

\* lines 60-61 / 66-67: the value a query contributes, else the default
PropValue(r, default) ==
    IF ~r.timeout /\ r.rc = 0 /\ Len(Strip(r.stdout)) > 0 THEN Strip(r.stdout)
    ELSE default

\* DeviceName with model starting out empty (line 56) and "Unknown" only as
\* the name of a device of which nothing is known
DeviceName_ModelStartsEmpty(m, b) ==
    LET model == PropValue(m, <<>>)
        brand == PropValue(b, <<>>)
    IN  IF Len(brand) > 0 THEN brand \o <<" ">> \o model
        ELSE IF Len(model) > 0 THEN model
        ELSE Unknown

\* lines 56-70
DeviceName(m, b) ==
    LET model == PropValue(m, Unknown)
        brand == PropValue(b, <<>>)
    IN  IF Len(brand) > 0 THEN brand \o <<" ">> \o model ELSE model

\* lines 233-235, 245-247, 271-273 with _parse_devices (73-88)
ParseDevices ==
    /\ pc = "choose_path"
    /\ Len(argIp) = 0
    /\ \E r \in ListingResults :
        LET t1 == Append(trace, AdbGot("devices", <<>>, "", <<>>, 0, r.rc, r.lines))
            usb == UsbOf(r.lines)
            wireless == WirelessOf(r.lines)
        IN  IF r.rc # 0
            THEN /\ Exit(1)
                 /\ trace' = Append(t1, Say("err_list", <<>>, <<>>, 0, <<>>))
                 /\ UNCHANGED <<usb_devices, wireless_targets, devices>>
            ELSE /\ usb_devices' = usb
                 /\ wireless_targets' = wireless
                 /\ IF Len(usb) > 0
                    THEN /\ devices' = usb
                         /\ pc' = "select_device"
                         /\ trace' = t1
                         /\ UNCHANGED exitCode
                    ELSE IF wireless # {}
                    THEN /\ devices' = Sorted(wireless)
                         /\ pc' = "select_wireless"
                         /\ trace' = t1
                         /\ UNCHANGED exitCode
                    ELSE /\ Exit(1)
                         /\ trace' = Append(t1, Say("err_no_devices", <<>>, <<>>, 0, <<>>))
                         /\ UNCHANGED devices
    /\ UNCHANGED <<argPort, argReverse, argIp, argIpGiven, adbOnPath,
                   result,
                   reverse_ports,
                   names, serial, ip, target, device_name, already_connected,
                   iface, now, deadline, last_output, attempts, ruleIdx>>

\* lines 229-231
UseGivenIp ==
    /\ pc = "choose_path"
    /\ Len(argIp) > 0
    /\ ip' = argIp
    /\ target' = FormatTarget(argIp, argPort)
    /\ pc' = "status"
    /\ UNCHANGED <<argPort, argReverse, argIp, argIpGiven, adbOnPath, result,
                   exitCode,
                   reverse_ports,
                   usb_devices, wireless_targets, devices, names, serial,
                   device_name, already_connected, iface, now, deadline,
                   last_output, attempts, ruleIdx, trace>>

\* lines 94-95 and 250, 253-254: one call of _get_device_name (55-70)
GetDeviceName ==
    /\ pc \in {"select_device", "select_wireless"}
    /\ Len(names) < Len(devices)
    /\ \E m \in ModelResults, b \in BrandResults :
        LET d == devices[Len(names) + 1] IN
        /\ names' = Append(names, DeviceName(m, b))
        /\ result' = <<m, b>>
        /\ trace' = trace \o <<Adb("getprop", d, "ro.product.model", <<>>, 0, 0),
                               Adb("getprop", d, "ro.product.brand", <<>>, 0, 0)>>
    /\ UNCHANGED <<argPort, argReverse, argIp, argIpGiven, adbOnPath, pc,
                   exitCode,
                   reverse_ports, usb_devices, wireless_targets, devices,
                   serial, ip, target, device_name, already_connected, iface,
                   now, deadline, last_output, attempts, ruleIdx>>

-----------------------------------------------------------------------------
(* Selection *)

EndOfInput == <<"EOF">>
Interrupt == <<"SIGINT">>

\* lines the operator may type, and the two ways a read is interrupted
Choices ==
    { <<"1">>, <<"2">>, <<"3">>, <<"0">>, <<"a", "b", "c">>, <<>>, <<"sup2">>,
      EndOfInput, Interrupt }

\* invalid answers after which the operator is no longer asked again
MaxInvalid == 1

InvalidCount == Cardinality({ i \in 1..Len(trace) : trace[i].op = "invalid_selection" })

\* Selected binding the serial of the first candidate whatever was chosen
Selected_FirstSerial(k) ==
    IF pc \in {"select_device", "prompt"}
    THEN /\ serial' = devices[1]
         /\ device_name' = names[k]
         /\ iface' = 1
         /\ pc' = "get_ip"
         /\ UNCHANGED <<target, already_connected>>
    ELSE /\ target' = devices[1]
         /\ device_name' = names[k]
         /\ already_connected' = TRUE
         /\ pc' = "status"
         /\ UNCHANGED <<serial, iface>>

\* lines 236-244 after _select_device returned / lines 266-270
Selected(k) ==
    IF pc \in {"select_device", "prompt"}
    THEN /\ serial' = devices[k]
         /\ device_name' = names[k]
         /\ iface' = 1
         /\ pc' = "get_ip"
         /\ UNCHANGED <<target, already_connected>>
    ELSE /\ target' = devices[k]
         /\ device_name' = names[k]
         /\ already_connected' = TRUE
         /\ pc' = "status"
         /\ UNCHANGED <<serial, iface>>

\* lines 97-99 and 248-250: a single candidate is taken without a prompt
AutoSelect ==
    /\ pc \in {"select_device", "select_wireless"}
    /\ Len(names) = Len(devices)
    /\ Len(devices) = 1
    /\ Selected(1)
    /\ devices' = <<>>
    /\ names' = <<>>
    /\ result' = <<>>
    /\ UNCHANGED <<argPort, argReverse, argIp, argIpGiven, adbOnPath,
                   exitCode,
                   reverse_ports,
                   usb_devices, wireless_targets, ip, now, deadline,
                   last_output, attempts, ruleIdx, trace>>

\* lines 101-104 and 255-258
ShowMenu ==
    /\ pc \in {"select_device", "select_wireless"}
    /\ Len(names) = Len(devices)
    /\ Len(devices) > 1
    /\ trace' = Append(trace, Say("menu", <<>>, <<>>, Len(devices), <<>>))
    /\ pc' = IF pc = "select_device" THEN "prompt" ELSE "prompt_wireless"
    /\ UNCHANGED <<argPort, argReverse, argIp, argIpGiven, adbOnPath, result,
                   exitCode,
                   reverse_ports,
                   usb_devices, wireless_targets, devices, names, serial, ip,
                   target, device_name, already_connected, iface, now,
                   deadline, last_output, attempts, ruleIdx>>

\* ReadChoice with an "except: continue" in place of lines 108-110: a raised
\* read is answered by a new prompt
ReadChoice_InterruptContinues ==
    /\ pc \in {"prompt", "prompt_wireless"}
    /\ \E choice \in Choices :
        LET n == Len(devices) IN
        IF choice \in {EndOfInput, Interrupt}
        THEN /\ InvalidCount < MaxInvalid
             /\ trace' = trace \o <<LastRead(n, TRUE, <<>>),
                                    Say("invalid_selection", <<>>, <<>>, n, <<>>)>>
             /\ UNCHANGED <<pc, exitCode, devices, names, serial, target,
                            device_name, already_connected, iface, result>>
        ELSE IF IsDigit(choice) /\ ~IntOk(choice)
        THEN /\ Exit(1)
             /\ trace' = trace \o <<LastRead(n, FALSE, choice),
                                    Say("traceback", <<>>, <<>>, 0, <<>>)>>
             /\ UNCHANGED <<devices, names, serial, target, device_name,
                            already_connected, iface, result>>
        ELSE IF IsDigit(choice) /\ 1 <= StrToInt(choice)
                /\ StrToInt(choice) <= Len(devices)
        THEN /\ Selected(StrToInt(choice))
             /\ devices' = <<>>
             /\ names' = <<>>
             /\ result' = <<>>
             /\ trace' = Append(trace, LastRead(n, FALSE, choice))
             /\ UNCHANGED exitCode
        ELSE /\ InvalidCount < MaxInvalid
             /\ trace' = trace \o <<Read(n),
                                    Say("invalid_selection", <<>>, <<>>, n, <<>>)>>
             /\ UNCHANGED <<pc, exitCode, devices, names, serial, target,
                            device_name, already_connected, iface, result>>
    /\ UNCHANGED <<argPort, argReverse, argIp, argIpGiven, adbOnPath,
                   reverse_ports,
                   usb_devices, wireless_targets, ip, now, deadline,
                   last_output, attempts, ruleIdx>>

\* lines 106-115 and 259-269: one pass of the while True loop
ReadChoice ==
    /\ pc \in {"prompt", "prompt_wireless"}
    /\ \E choice \in Choices :
        LET n == Len(devices) IN
        IF choice \in {EndOfInput, Interrupt}
        THEN /\ Exit(1)
             /\ trace' = trace \o <<LastRead(n, TRUE, <<>>),
                                    Say("newline", <<>>, <<>>, 0, <<>>)>>
             /\ UNCHANGED <<devices, names, serial, target, device_name,
                            already_connected, iface, result>>
        ELSE IF IsDigit(choice) /\ ~IntOk(choice)
        THEN \* int(choice) raises ValueError, which nothing catches
             /\ Exit(1)
             /\ trace' = trace \o <<LastRead(n, FALSE, choice),
                                    Say("traceback", <<>>, <<>>, 0, <<>>)>>
             /\ UNCHANGED <<devices, names, serial, target, device_name,
                            already_connected, iface, result>>
        ELSE IF IsDigit(choice) /\ 1 <= StrToInt(choice)
                /\ StrToInt(choice) <= Len(devices)
        THEN /\ Selected(StrToInt(choice))
             /\ devices' = <<>>
             /\ names' = <<>>
             /\ result' = <<>>
             /\ trace' = Append(trace, LastRead(n, FALSE, choice))
             /\ UNCHANGED exitCode
        ELSE /\ InvalidCount < MaxInvalid
             /\ trace' = trace \o <<Read(n),
                                    Say("invalid_selection", <<>>, <<>>, n, <<>>)>>
             /\ UNCHANGED <<pc, exitCode, devices, names, serial, target,
                            device_name, already_connected, iface, result>>
    /\ UNCHANGED <<argPort, argReverse, argIp, argIpGiven, adbOnPath,
                   reverse_ports,
                   usb_devices, wireless_targets, ip, now, deadline,
                   last_output, attempts, ruleIdx>>

-----------------------------------------------------------------------------
(* Address resolver *)

Ifaces == <<"wlan0", "wlan1", "wifi0">>

WInet == <<"i", "n", "e", "t">>
WInet6 == <<"i", "n", "e", "t", "6">>
WSrc == <<"s", "r", "c">>
WDev == <<"d", "e", "v">>
Slash24 == <<"/", "2", "4">>
BadIp == <<"9", "9", "9", ".", "1", ".", "1", ".", "1">>
V6 == <<"f", "e", "8", "0", ":", ":", "1", "/", "6", "4">>

\* results of "adb shell ip addr show <iface>": each line cut at its blanks
IfaceResults ==
    { [timeout |-> TRUE, rc |-> 0, lines |-> <<>>],
      [timeout |-> FALSE, rc |-> 1, lines |-> <<<<WInet, IpB \o Slash24>>>>],
      [timeout |-> FALSE, rc |-> 0, lines |-> <<<<WDev>>, <<WInet6, V6>>>>],
      [timeout |-> FALSE, rc |-> 0, lines |-> <<<<WInet, BadIp \o Slash24>>, <<WInet, IpA>>>>],
      [timeout |-> FALSE, rc |-> 0,
       lines |-> <<<<WDev>>, <<WInet, BadIp \o Slash24>>, <<WInet, IpA \o Slash24, WDev>>,
                   <<WInet, IpB \o Slash24>>>>] }

\* results of "adb shell ip route"
RouteResults ==
    { [timeout |-> TRUE, rc |-> 0, lines |-> <<>>],
      [timeout |-> FALSE, rc |-> 1, lines |-> <<<<WDev, WSrc, IpA>>>>],
      [timeout |-> FALSE, rc |-> 0, lines |-> <<<<IpB \o Slash24, WDev, WSrc>>>>],
      [timeout |-> FALSE, rc |-> 0,
       lines |-> <<<<WDev, WSrc, WDev, WSrc, BadIp>>, <<WSrc, WSrc, IpB, WSrc, IpA>>>>] }

EndsWith(s, suffix) ==
    Len(s) >= Len(suffix) /\ SubSeq(s, Len(s) - Len(suffix) + 1, Len(s)) = suffix

\* the text \d+\.\d+\.\d+\.\d+ at the start of tok when "/" follows it, else empty
QuadBeforeSlash(tok) ==
    LET i == IndexOf(tok, "/")
        q == SubSeq(tok, 1, i - 1)
        parts == Split(q, ".")
    IN  IF i > 1 /\ Len(parts) = 4 /\ \A k \in 1..4 : IntOk(parts[k]) THEN q ELSE <<>>

\* line 126: group 1 of the first match of r"inet (\d+\.\d+\.\d+\.\d+)/" in
\* the line, empty when there is none
InetGroup(line) ==
    LET hits == { i \in 1..(Len(line) - 1) :
                    EndsWith(line[i], WInet) /\ Len(QuadBeforeSlash(line[i + 1])) > 0 }
    IN  IF hits = {} THEN <<>>
        ELSE QuadBeforeSlash(line[(CHOOSE i \in hits : \A j \in hits : i <= j) + 1])

\* lines 125-133: the first line whose match is a valid address
RECURSIVE ScanInet(_)
ScanInet(lines) ==
    IF Len(lines) = 0 THEN <<>>
    ELSE LET g == InetGroup(Head(lines)) IN
         IF Len(g) > 0 /\ ValidIPv4(g) THEN g ELSE ScanInet(Tail(lines))

\* lines 142-150 for one line: the first valid address following a "src" token
SrcInLine(tokens) ==
    LET hits == { i \in 1..(Len(tokens) - 1) :
                    tokens[i] = WSrc /\ ValidIPv4(tokens[i + 1]) }
    IN  IF hits = {} THEN <<>>
        ELSE tokens[(CHOOSE i \in hits : \A j \in hits : i <= j) + 1]

\* lines 141-150
RECURSIVE ScanRoute(_)
ScanRoute(lines) ==
    IF Len(lines) = 0 THEN <<>>
    ELSE LET g == SrcInLine(Head(lines)) IN
         IF Len(g) > 0 THEN g ELSE ScanRoute(Tail(lines))

\* Answer reading the output whatever the exit status (no line 124 / 140)
Answer_IgnoreStatus(r, scan) == IF ~r.timeout THEN scan ELSE <<>>

\* lines 124 / 140 with the timeout handlers 134 / 151
Answer(r, scan) == IF ~r.timeout /\ r.rc = 0 THEN scan ELSE <<>>

\* Resolved without the membership test of lines 243-244
Resolved_NoWirelessCheck(addr) ==
    /\ ip' = addr
    /\ target' = FormatTarget(addr, argPort)
    /\ already_connected' = FALSE
    /\ iface' = 0
    /\ pc' = "status"
    /\ UNCHANGED exitCode

\* lines 239-244: _get_device_ip returned addr
Resolved(addr) ==
    /\ ip' = addr
    /\ target' = FormatTarget(addr, argPort)
    /\ already_connected' = (FormatTarget(addr, argPort) \in wireless_targets)
    /\ iface' = 0
    /\ pc' = "status"
    /\ UNCHANGED exitCode

\* QueryIface asking the same interface again after a timeout
QueryIface_RetryOnTimeout ==
    /\ pc = "get_ip"
    /\ \E r \in IfaceResults :
        LET found == Answer(r, ScanInet(r.lines)) IN
        /\ trace' = Append(trace, Adb("ip_addr", serial, Ifaces[iface], <<>>, 0, 0))
        /\ result' = <<r>>
        /\ IF Len(found) > 0
           THEN Resolved(found)
           ELSE /\ IF r.timeout
                   THEN iface' = iface /\ pc' = "get_ip"
                   ELSE IF iface < Len(Ifaces)
                   THEN iface' = iface + 1 /\ pc' = "get_ip"
                   ELSE iface' = 0 /\ pc' = "get_ip_route"
                /\ UNCHANGED <<ip, target, already_connected, exitCode>>
    /\ UNCHANGED <<argPort, argReverse, argIp, argIpGiven, adbOnPath,
                   reverse_ports,
                   usb_devices, wireless_targets, devices, names, serial,
                   device_name, now, deadline, last_output, attempts, ruleIdx>>

\* lines 121-135: one pass of the loop over the interfaces
QueryIface ==
    /\ pc = "get_ip"
    /\ \E r \in IfaceResults :
        LET found == Answer(r, ScanInet(r.lines)) IN
        /\ trace' = Append(trace, Adb("ip_addr", serial, Ifaces[iface], <<>>, 0, 0))
        /\ result' = <<r>>
        /\ IF Len(found) > 0
           THEN Resolved(found)
           ELSE /\ IF iface < Len(Ifaces)
                   THEN iface' = iface + 1 /\ pc' = "get_ip"
                   ELSE iface' = 0 /\ pc' = "get_ip_route"
                /\ UNCHANGED <<ip, target, already_connected, exitCode>>
    /\ UNCHANGED <<argPort, argReverse, argIp, argIpGiven, adbOnPath,
                   reverse_ports,
                   usb_devices, wireless_targets, devices, names, serial,
                   device_name, now, deadline, last_output, attempts, ruleIdx>>

\* lines 137-155
QueryRoute ==
    /\ pc = "get_ip_route"
    /\ \E r \in RouteResults :
        LET found == Answer(r, ScanRoute(r.lines))
            t1 == Append(trace, Adb("ip_route", serial, "", <<>>, 0, 0))
        IN  /\ result' = <<r>>
            /\ IF Len(found) > 0
               THEN Resolved(found) /\ trace' = t1
               ELSE /\ Exit(1)
                    /\ trace' = Append(t1, Say("err_no_ip", <<>>, <<>>, 0, <<>>))
                    /\ UNCHANGED <<ip, target, already_connected, iface>>
    /\ UNCHANGED <<argPort, argReverse, argIp, argIpGiven, adbOnPath,
                   reverse_ports,
                   usb_devices, wireless_targets, devices, names, serial,
                   device_name, now, deadline, last_output, attempts, ruleIdx>>

-----------------------------------------------------------------------------
(* Orchestration *)

\* Status printing the already-connected line whatever the flags (no line 277)
Status_AlwaysReport ==
    /\ pc = "status"
    /\ IF already_connected
       THEN /\ trace' = Append(trace, Say("already_connected", device_name, target, 0, <<>>))
            /\ pc' = "reverse"
       ELSE /\ trace' = IF Len(device_name) > 0
                        THEN Append(trace, Say("setting_up", device_name, <<>>, argPort, <<>>))
                        ELSE trace
            /\ pc' = IF Len(argIp) = 0 THEN "tcpip" ELSE "connect"
    /\ UNCHANGED <<argPort, argReverse, argIp, argIpGiven, adbOnPath, result,
                   exitCode,
                   reverse_ports,
                   usb_devices, wireless_targets, devices, names, serial, ip,
                   target, device_name, already_connected, iface, now,
                   deadline, last_output, attempts, ruleIdx>>

\* Status going to the handshake without the mode switch of lines 287-292
Status_SkipTcpip ==
    /\ pc = "status"
    /\ IF already_connected
       THEN /\ trace' = IF Len(reverse_ports) = 0
                        THEN Append(trace, Say("already_connected", device_name, target, 0, <<>>))
                        ELSE trace
            /\ pc' = "reverse"
       ELSE /\ trace' = IF Len(device_name) > 0
                        THEN Append(trace, Say("setting_up", device_name, <<>>, argPort, <<>>))
                        ELSE trace
            /\ pc' = "connect"
    /\ UNCHANGED <<argPort, argReverse, argIp, argIpGiven, adbOnPath, result,
                   exitCode,
                   reverse_ports,
                   usb_devices, wireless_targets, devices, names, serial, ip,
                   target, device_name, already_connected, iface, now,
                   deadline, last_output, attempts, ruleIdx>>

\* Status without the test of line 287: the mode switch also with --ip
Status_TcpipAlways ==
    /\ pc = "status"
    /\ IF already_connected
       THEN /\ trace' = IF Len(reverse_ports) = 0
                        THEN Append(trace, Say("already_connected", device_name, target, 0, <<>>))
                        ELSE trace
            /\ pc' = "reverse"
       ELSE /\ trace' = IF Len(device_name) > 0
                        THEN Append(trace, Say("setting_up", device_name, <<>>, argPort, <<>>))
                        ELSE trace
            /\ pc' = "tcpip"
    /\ UNCHANGED <<argPort, argReverse, argIp, argIpGiven, adbOnPath, result,
                   exitCode,
                   reverse_ports,
                   usb_devices, wireless_targets, devices, names, serial, ip,
                   target, device_name, already_connected, iface, now,
                   deadline, last_output, attempts, ruleIdx>>

\* lines 275-284
Status ==
    /\ pc = "status"
    /\ IF already_connected
       THEN /\ trace' = IF Len(reverse_ports) = 0
                        THEN Append(trace, Say("already_connected", device_name, target, 0, <<>>))
                        ELSE trace
            /\ pc' = "reverse"
       ELSE /\ trace' = IF Len(device_name) > 0
                        THEN Append(trace, Say("setting_up", device_name, <<>>, argPort, <<>>))
                        ELSE trace
            /\ pc' = IF Len(argIp) = 0 THEN "tcpip" ELSE "connect"
    /\ UNCHANGED <<argPort, argReverse, argIp, argIpGiven, adbOnPath, result,
                   exitCode,
                   reverse_ports,
                   usb_devices, wireless_targets, devices, names, serial, ip,
                   target, device_name, already_connected, iface, now,
                   deadline, last_output, attempts, ruleIdx>>

\* str.lower() of a word of adb output
Lower(w) == IF w \in {"Error", "ERROR"} THEN "error" ELSE w

\* "error" in output, without lower()
HasError_CaseSensitive(text) == \E i \in 1..Len(text) : text[i] = "error"

\* "error" in output.lower()
HasError(text) == \E i \in 1..Len(text) : Lower(text[i]) = "error"

\* results of "adb tcpip <port>": exit status, stdout and stderr as words
TcpipResults ==
    { [rc |-> 0, stdout |-> <<"restarting", "in", "TCP", "mode">>, stderr |-> <<>>],
      [rc |-> 1, stdout |-> <<>>, stderr |-> <<"adb", ":", "no", "devices">>],
      [rc |-> 0, stdout |-> <<>>, stderr |-> <<"Error", ":", "closed">>],
      [rc |-> 1, stdout |-> <<"error", ":", "device", "offline">>, stderr |-> <<>>] }

\* line 290
TcpipFailed(r) == r.rc # 0 \/ HasError(r.stdout \o r.stderr)

\* lines 286-292
Tcpip ==
    /\ pc = "tcpip"
    /\ \E r \in TcpipResults :
        LET t1 == Append(trace, AdbGot("tcpip", serial, "", <<>>, argPort, r.rc,
                                       r.stdout \o r.stderr)) IN
        IF TcpipFailed(r)
        THEN /\ Exit(1)
             /\ trace' = Append(t1, Say("err_tcpip", <<>>, <<>>, 0, r.stdout \o r.stderr))
        ELSE /\ pc' = "connect"
             /\ trace' = t1
             /\ UNCHANGED exitCode
    /\ UNCHANGED <<argPort, argReverse, argIp, argIpGiven, adbOnPath,
                   result,
                   reverse_ports,
                   usb_devices, wireless_targets, devices, names, serial, ip,
                   target, device_name, already_connected, iface, now,
                   deadline, last_output, attempts, ruleIdx>>

-----------------------------------------------------------------------------
(* Connect handshake; one tick is half a second *)

DeadlineTicks == 10
AttemptTimeoutTicks == 6
SleepTicks == 1

\* how long one "adb connect" may take: it returns at once, after 1.5 s, or
\* only when the timeout of 3 s cuts it off
AttemptTicks == {0, 3, AttemptTimeoutTicks}

\* results of "adb connect <target>"
ConnectResults ==
    { [timeout |-> TRUE, stdout |-> <<>>, stderr |-> <<>>],
      [timeout |-> FALSE,
       stdout |-> <<"failed", "to", "connect", "to", "device", "\n">>,
       stderr |-> <<>>],
      [timeout |-> FALSE, stdout |-> <<"connected", "to", "device", "\n">>,
       stderr |-> <<>>],
      [timeout |-> FALSE, stdout |-> <<>>,
       stderr |-> <<"already", "connected", "to", "device">>] }

\* needle in text, for texts made of words
HasWords(text, needle) ==
    \E i \in 1..(Len(text) - Len(needle) + 1) :
        SubSeq(text, i, i + Len(needle) - 1) = needle

\* line 169 matching "connect to" in place of "connected to"
IsConnectedOutput_Loose(text) ==
    HasWords(text, <<"connect", "to">>) \/ HasWords(text, <<"already", "connected">>)

\* line 169
IsConnectedOutput(text) ==
    HasWords(text, <<"connected", "to">>) \/ HasWords(text, <<"already", "connected">>)

TimedOutText == <<"connection", "timed", "out">>

\* text.strip() for texts made of words: the line ends and blanks at either
\* end go
RECURSIVE StripText(_)
StripText(text) ==
    IF Len(text) = 0 THEN text
    ELSE IF text[1] \in {" ", "\n"} THEN StripText(Tail(text))
    ELSE IF text[Len(text)] \in {" ", "\n"}
         THEN StripText(SubSeq(text, 1, Len(text) - 1))
    ELSE text

\* lines 168 and 172 with an empty text where line 172 sets the timeout text
LastOutputOf_NoTimeoutText(r) == StripText(r.stdout \o r.stderr)

\* lines 168 and 172: what one attempt leaves in last_output
LastOutputOf(r) ==
    IF r.timeout THEN TimedOutText ELSE StripText(r.stdout \o r.stderr)

\* lines 160-164
ConnectStart ==
    /\ pc = "connect"
    /\ trace' = Append(trace, Say("connecting", <<>>, FormatTarget(ip, argPort), 0, <<>>))
    /\ now' = 0
    /\ deadline' = DeadlineTicks
    /\ last_output' = <<>>
    /\ attempts' = 0
    /\ pc' = "connect_try"
    /\ UNCHANGED <<argPort, argReverse, argIp, argIpGiven, adbOnPath, result,
                   exitCode,
                   reverse_ports,
                   usb_devices, wireless_targets, devices, names, serial, ip,
                   target, device_name, already_connected, iface, ruleIdx>>

\* lines 166-172: one attempt, lasting d ticks
ConnectAttempt ==
    /\ pc = "connect_try"
    /\ \E r \in ConnectResults, d \in AttemptTicks :
        /\ r.timeout => d = AttemptTimeoutTicks
        /\ now' = now + d
        /\ last_output' = LastOutputOf(r)
        /\ result' = <<r>>
        /\ pc' = IF ~r.timeout /\ IsConnectedOutput(LastOutputOf(r))
                 THEN "connected" ELSE "connect_check"
        \* the entry's a is 1 when this attempt made _connect return
        /\ trace' = Append(trace, Adb("connect", <<>>, "", FormatTarget(ip, argPort),
                                      IF ~r.timeout /\ IsConnectedOutput(LastOutputOf(r))
                                      THEN 1 ELSE 0, 0))
    /\ attempts' = attempts + 1
    /\ UNCHANGED <<argPort, argReverse, argIp, argIpGiven, adbOnPath,
                   exitCode,
                   reverse_ports,
                   usb_devices, wireless_targets, devices, names, serial, ip,
                   target, device_name, already_connected, iface, deadline,
                   ruleIdx>>

\* line 174 with > in place of >=
DeadlinePassed_Strict == now > deadline

\* line 174
DeadlinePassed == now >= deadline

\* ConnectCheck without the sleep of line 176
ConnectCheck_NoSleep ==
    /\ pc = "connect_check"
    /\ IF DeadlinePassed
       THEN /\ Exit(1)
            /\ trace' = Append(trace, Say("err_connect", <<>>, FormatTarget(ip, argPort),
                                          0, last_output))
            /\ UNCHANGED now
       ELSE /\ pc' = "connect_try"
            /\ UNCHANGED <<exitCode, trace, now>>
    /\ UNCHANGED <<argPort, argReverse, argIp, argIpGiven, adbOnPath, result,
                   reverse_ports,
                   usb_devices, wireless_targets, devices, names, serial, ip,
                   target, device_name, already_connected, iface, deadline,
                   last_output, attempts, ruleIdx>>

\* lines 174-179
ConnectCheck ==
    /\ pc = "connect_check"
    /\ IF DeadlinePassed
       THEN /\ Exit(1)
            /\ trace' = Append(trace, Say("err_connect", <<>>, FormatTarget(ip, argPort),
                                          0, last_output))
            /\ UNCHANGED now
       ELSE /\ now' = now + SleepTicks
            /\ pc' = "connect_try"
            /\ UNCHANGED <<exitCode, trace>>
    /\ UNCHANGED <<argPort, argReverse, argIp, argIpGiven, adbOnPath,
                   result,
                   reverse_ports,
                   usb_devices, wireless_targets, devices, names, serial, ip,
                   target, device_name, already_connected, iface, deadline,
                   last_output, attempts, ruleIdx>>

\* lines 297-300, after _connect returned (its locals are gone)
Connected ==
    /\ pc = "connected"
    /\ trace' = Append(trace, Say("connected", device_name, target, 0, <<>>))
    /\ now' = 0
    /\ deadline' = 0
    /\ last_output' = <<>>
    /\ attempts' = 0
    /\ result' = <<>>
    /\ pc' = "reverse"
    /\ UNCHANGED <<argPort, argReverse, argIp, argIpGiven, adbOnPath,
                   exitCode,
                   reverse_ports,
                   usb_devices, wireless_targets, devices, names, serial, ip,
                   target, device_name, already_connected, iface, ruleIdx>>

-----------------------------------------------------------------------------
(* Forwarding *)

\* exit statuses of "adb reverse"
ReverseResults == {0, 1}

\* lines 303-305
ReverseStart ==
    /\ pc = "reverse"
    /\ IF Len(reverse_ports) > 0
       THEN /\ trace' = Append(trace, Say("reverse_setup", <<>>, <<>>, Len(reverse_ports), <<>>))
            /\ ruleIdx' = 1
            /\ pc' = "reverse_rule"
       ELSE /\ pc' = "finish"
            /\ UNCHANGED <<trace, ruleIdx>>
    /\ UNCHANGED <<argPort, argReverse, argIp, argIpGiven, adbOnPath, result,
                   exitCode,
                   reverse_ports,
                   usb_devices, wireless_targets, devices, names, serial, ip,
                   target, device_name, already_connected, iface, now,
                   deadline, last_output, attempts>>

\* ReverseRule exiting with 1 on the first rule that fails
ReverseRule_AbortOnFailure ==
    /\ pc = "reverse_rule"
    /\ \E rc \in ReverseResults :
        LET rule == reverse_ports[ruleIdx]
            t1 == Append(trace, Adb("reverse", target, "", <<>>, rule[1], rule[2]))
        IN  IF rc # 0
            THEN /\ trace' = Append(t1, Say("warn_reverse", <<>>, <<>>, rule[1], <<>>))
                 /\ Exit(1)
                 /\ UNCHANGED ruleIdx
            ELSE /\ trace' = t1
                 /\ UNCHANGED exitCode
                 /\ IF ruleIdx < Len(reverse_ports)
                    THEN ruleIdx' = ruleIdx + 1 /\ pc' = "reverse_rule"
                    ELSE ruleIdx' = 0 /\ pc' = "finish"
    /\ UNCHANGED <<argPort, argReverse, argIp, argIpGiven, adbOnPath,
                   result,
                   reverse_ports,
                   usb_devices, wireless_targets, devices, names, serial, ip,
                   target, device_name, already_connected, iface, now,
                   deadline, last_output, attempts>>

\* lines 306-309: one pass of the loop over reverse_ports
ReverseRule ==
    /\ pc = "reverse_rule"
    /\ \E rc \in ReverseResults :
        LET rule == reverse_ports[ruleIdx]
            t1 == Append(trace, Adb("reverse", target, "", <<>>, rule[1], rule[2]))
        IN  trace' = IF rc # 0
                     THEN Append(t1, Say("warn_reverse", <<>>, <<>>, rule[1], <<>>))
                     ELSE t1
    /\ IF ruleIdx < Len(reverse_ports)
       THEN ruleIdx' = ruleIdx + 1 /\ pc' = "reverse_rule"
       ELSE ruleIdx' = 0 /\ pc' = "finish"
    /\ UNCHANGED <<argPort, argReverse, argIp, argIpGiven, adbOnPath, result,
                   exitCode,
                   reverse_ports,
                   usb_devices, wireless_targets, devices, names, serial, ip,
                   target, device_name, already_connected, iface, now,
                   deadline, last_output, attempts>>

\* lines 311-312 and the return of main
Finish ==
    /\ pc = "finish"
    /\ trace' = IF ~already_connected /\ Len(argIp) = 0
                THEN Append(trace, Say("disconnect_usb", <<>>, <<>>, 0, <<>>))
                ELSE trace
    /\ Exit(0)
    /\ UNCHANGED <<argPort, argReverse, argIp, argIpGiven, adbOnPath,
                   result,
                   reverse_ports,
                   usb_devices, wireless_targets, devices, names, serial, ip,
                   target, device_name, already_connected, iface, now,
                   deadline, last_output, attempts, ruleIdx>>

Next ==
    \/ ValidatePort
    \/ ParseReverse
    \/ CheckAdb
    \/ ValidateIp
    \/ ParseDevices
    \/ UseGivenIp
    \/ GetDeviceName
    \/ AutoSelect
    \/ ShowMenu
    \/ ReadChoice
    \/ QueryIface
    \/ QueryRoute
    \/ Status
    \/ Tcpip
    \/ ConnectStart
    \/ ConnectAttempt
    \/ ConnectCheck
    \/ Connected
    \/ ReverseStart
    \/ ReverseRule
    \/ Finish

Spec == Init /\ [][Next]_vars

\* Inside _connect every statement ends: an attempt returns or times out
\* after 3 seconds, the sleep returns, and the interpreter goes on to the next
\* statement.
FairSpec ==
    /\ Spec
    /\ WF_vars(ConnectStart)
    /\ WF_vars(ConnectAttempt)
    /\ WF_vars(ConnectCheck)

-----------------------------------------------------------------------------
(* Properties *)

\* positions of the adb commands in trace, and of the entries of one kind
AdbAt == { i \in 1..Len(trace) : trace[i].ev = "adb" }
OpAt(op) == { i \in 1..Len(trace) : trace[i].op = op }

TokenCount(s) ==
    IF Len(s) = 0 THEN 0 ELSE Cardinality({ i \in 1..Len(s) : s[i] = "," }) + 1

\* C1: once main is past the parsing of -r, either reverse_ports holds one
\* pair per token of the specification, both values in 1..65535 and equal
\* for a token without a colon, or the run has exited with status 1 and no
\* adb command was issued.
C1_ReverseAllOrNothing ==
    pc \notin {"validate_port", "parse_reverse"} =>
        \/ /\ Len(reverse_ports) = TokenCount(argReverse)
           /\ \A i \in 1..Len(reverse_ports) :
                /\ reverse_ports[i][1] \in 1..65535
                /\ reverse_ports[i][2] \in 1..65535
                /\ ~Contains(Split(argReverse, ",")[i], ":")
                     => reverse_ports[i][1] = reverse_ports[i][2]
        \/ exitCode = 1 /\ AdbAt = {}

\* a specification whose second token is bad: the first rule was parsed, the
\* run exited with 1
C1_Witness ==
    /\ argReverse = <<"3", "0", "0", "0", ",", "a", "b", "c">>
    /\ reverse_ports = <<<<3000, 3000>>>>
    /\ pc = "done"
    /\ exitCode = 1
    /\ AdbAt = {}

\* C2: when the session target is in the network-device set of the listing
\* (a USB device whose ip:port is listed, or a device picked from the set),
\* no tcpip and no connect command has been issued.
C2_NoSwitchWhenConnected ==
    (Len(target) > 0 /\ target \in wireless_targets) =>
        OpAt("tcpip") = {} /\ OpAt("connect") = {}

\* a USB device found already connected, run to its end
C2_Witness ==
    /\ pc = "done"
    /\ exitCode = 0
    /\ serial = SerA
    /\ target = NetA
    /\ target \in wireless_targets

\* main is past the status report of lines 275-284
PastStatus == pc \in {"reverse", "reverse_rule", "finish"} \/ (pc = "done" /\ exitCode = 0)

\* C3 as stated: every run on the already-connected path reports "already
\* connected", with or without reverse rules.
C3_AlwaysReports ==
    (already_connected /\ PastStatus) => OpAt("already_connected") # {}

\* C3 amended: on the already-connected path the report is printed exactly
\* when no reverse rule was supplied; with rules the run goes to forwarding
\* without the report, and in both cases it ends with status 0 after one
\* reverse command per rule.
C3_ReportsOnlyWhenBare ==
    (already_connected /\ PastStatus) =>
        /\ (OpAt("already_connected") # {}) <=> (Len(reverse_ports) = 0)
        /\ pc = "done" => Cardinality(OpAt("reverse")) = Len(reverse_ports)

\* an already-connected run with two rules that ended without the report
C3_Witness ==
    /\ already_connected
    /\ pc = "done"
    /\ exitCode = 0
    /\ Len(reverse_ports) = 2
    /\ Cardinality(OpAt("reverse")) = 2
    /\ OpAt("already_connected") = {}

\* _connect is running / has ended by its sys.exit(1) of line 179
InConnect == pc \in {"connect", "connect_try", "connect_check"}
ConnectFailed == pc = "done" /\ Len(trace) > 0 /\ trace[Len(trace)].op = "err_connect"

SaysConnected(text) ==
    \/ \E i \in 1..(Len(text) - 1) : text[i] = "connected" /\ text[i + 1] = "to"
    \/ \E i \in 1..(Len(text) - 1) : text[i] = "already" /\ text[i + 1] = "connected"

\* C4: _connect always ends, and it ends in one of two ways only: it returns
\* right after an attempt whose output contains "connected to" or "already
\* connected", or it exits with status 1 once the deadline has passed after an
\* attempt whose output did not match.
C4_ConnectTerminates ==
    /\ [](pc = "connected" => (attempts >= 1 /\ SaysConnected(last_output)))
    /\ [](ConnectFailed => (/\ exitCode = 1
                            /\ attempts >= 1
                            /\ now >= DeadlineTicks
                            /\ ~SaysConnected(last_output)))
    /\ (InConnect ~> (pc = "connected" \/ ConnectFailed))

\* the handshake gave up after a timed-out attempt that was not the first
C4_Witness ==
    /\ ConnectFailed
    /\ attempts >= 2
    /\ last_output = <<"connection", "timed", "out">>

\* C5 as stated: _connect is over within 5 seconds (10 ticks) of its start.
C5_EndsWithinDeadline ==
    (pc = "connected" \/ ConnectFailed) => now <= 10

\* C5 amended: the deadline is compared only after an attempt, so a wait and
\* one more attempt may follow a check made just before it: _connect is over
\* less than 5 + 0.5 + 3 = 8.5 seconds (17 ticks) after its start.
C5_EndsWithinDeadlinePlusAttempt ==
    (pc = "connected" \/ ConnectFailed) => now < 10 + 1 + 6

\* a handshake that ended later than 5 seconds after its start
C5_Witness ==
    /\ pc = "connected" \/ ConnectFailed
    /\ now > 10
    /\ attempts >= 2

\* the session is confirmed: a connect attempt made _connect return, or the
\* target was found in the network-device set of the listing
Confirmed ==
    \/ \E i \in OpAt("connect") : trace[i].a = 1
    \/ Len(target) > 0 /\ target \in wireless_targets

\* C6: no prompt is shown or read before the device listing; every address
\* query comes before the tcpip command, which needs one; the tcpip command
\* comes before every connect command, which without --ip needs one; and a
\* reverse command is issued only after a connect attempt succeeded or with
\* the target found already connected.
C6_CommandOrder ==
    /\ \A i \in OpAt("menu") \cup OpAt("input") :
         \E j \in OpAt("devices") : j < i
    /\ \A j \in OpAt("tcpip") :
         /\ \E i \in OpAt("ip_addr") \cup OpAt("ip_route") : i < j
         /\ \A i \in OpAt("ip_addr") \cup OpAt("ip_route") : i < j
    /\ \A j \in OpAt("connect") :
         /\ \A i \in OpAt("tcpip") : i < j
         /\ Len(argIp) = 0 => \E i \in OpAt("tcpip") : i < j
    /\ \A j \in OpAt("reverse") :
         \/ \E i \in OpAt("connect") : i < j /\ trace[i].a = 1
         \/ OpAt("connect") = {} /\ target \in wireless_targets

\* a USB run with a prompt, a mode switch, a handshake and both rules applied
C6_Witness ==
    /\ pc = "done"
    /\ exitCode = 0
    /\ OpAt("input") # {}
    /\ OpAt("ip_route") # {}
    /\ OpAt("tcpip") # {}
    /\ Cardinality(OpAt("connect")) >= 2
    /\ Cardinality(OpAt("reverse")) = 2

\* C7: with a valid --ip the only adb commands are connect and reverse, the
\* first one is a connect to ip:port, and a reverse command is issued only
\* after a connect attempt succeeded.
C7_GivenIpSkipsDiscovery ==
    (Len(argIp) > 0 /\ ValidIPv4(argIp)) =>
        /\ \A i \in AdbAt : trace[i].op \in {"connect", "reverse"}
        /\ \A i \in AdbAt :
             (\A j \in AdbAt : i <= j) =>
                 /\ trace[i].op = "connect"
                 /\ trace[i].target = argIp \o <<":">> \o IntToStr(argPort)
        /\ \A j \in OpAt("reverse") :
             \E i \in OpAt("connect") : i < j /\ trace[i].a = 1

\* --ip 10.0.0.5 -r "3000, 8080:9090" run to its end after a retried handshake
C7_Witness ==
    /\ argIp = IpB
    /\ pc = "done"
    /\ exitCode = 0
    /\ Cardinality(OpAt("connect")) >= 2
    /\ Cardinality(OpAt("reverse")) = 2

\* the reverse commands issued so far, in order
ReverseCmds == SelectSeq(trace, LAMBDA e : e.op = "reverse")

\* C8: the reverse commands are the rules of reverse_ports in input order,
\* each addressed to the session's ip:port target; a warning only ever follows
\* the reverse command of its rule; and a run whose session was confirmed ends
\* with status 0 after one reverse command per rule, whichever of them failed.
C8_ReverseRulesAllApplied ==
    /\ Len(ReverseCmds) <= Len(reverse_ports)
    /\ \A k \in 1..Len(ReverseCmds) :
         /\ ReverseCmds[k].a = reverse_ports[k][1]
         /\ ReverseCmds[k].b = reverse_ports[k][2]
         /\ ReverseCmds[k].serial = target
         /\ Contains(target, ":")
    /\ \A i \in OpAt("warn_reverse") :
         i > 1 /\ trace[i - 1].op = "reverse" /\ trace[i - 1].a = trace[i].a
    /\ (Confirmed /\ pc = "done") =>
         exitCode = 0 /\ Len(ReverseCmds) = Len(reverse_ports)

\* the first of two rules failed, the second was still issued, the run ended
\* with status 0
C8_Witness ==
    /\ pc = "done"
    /\ exitCode = 0
    /\ Len(ReverseCmds) = 2
    /\ \E i \in OpAt("warn_reverse") :
         /\ trace[i].a = 3000
         /\ \E j \in OpAt("reverse") : j > i /\ trace[j].a = 8080 /\ trace[j].b = 9090

\* C9: when the listing succeeded and none of its lines is a ready device
\* (two fields, the second "device"), the run has ended with status 1 and the
\* listing is its only adb command.
C9_NoDevicesIsFatal ==
    \A i \in OpAt("devices") :
        (/\ trace[i].b = 0
         /\ \A k \in 1..Len(trace[i].text) :
              ~(Len(trace[i].text[k]) = 2 /\ trace[i].text[k][2] = WDevice))
        => (pc = "done" /\ exitCode = 1 /\ Cardinality(AdbAt) = 1)

\* a listing with an offline device and a three-field line, and nothing ready
C9_Witness ==
    /\ pc = "done"
    /\ exitCode = 1
    /\ trace[Len(trace)].op = "err_no_devices"
    /\ \E i \in OpAt("devices") : Len(trace[i].text) = 4

\* C10: when the tcpip command exited nonzero or its output contains "error"
\* in any letter case, the run has ended with status 1 and tcpip is its last
\* adb command.
C10_TcpipFailureIsFatal ==
    \A i \in OpAt("tcpip") :
        (\/ trace[i].b # 0
         \/ \E k \in 1..Len(trace[i].text) : trace[i].text[k] \in {"error", "Error", "ERROR"})
        => (pc = "done" /\ exitCode = 1 /\ \A j \in AdbAt : j <= i)

\* tcpip exited 0 but printed "Error: closed": fatal
C10_Witness ==
    /\ pc = "done"
    /\ exitCode = 1
    /\ \E i \in OpAt("tcpip") : trace[i].b = 0 /\ trace[i].text[1] = "Error"

\* positions of the reads of the operator's answer that raised EOFError or
\* KeyboardInterrupt
RaisedReads == { i \in OpAt("input") : trace[i].b = 1 }

\* C11: when the read of the operator's choice is cut short by end of input
\* or by an interrupt, in the USB prompt or in the network prompt, the run
\* is over with exit status 1, and that read is the last thing the run did
\* with the operator or with adb: no adb command and no further read follows.
C11_InterruptIsFatal ==
    \A i \in RaisedReads :
        /\ pc = "done"
        /\ exitCode = 1
        /\ \A j \in AdbAt \cup OpAt("input") : j <= i

\* the network prompt, interrupted at the answer after an invalid one
C11_Witness ==
    /\ RaisedReads # {}
    /\ usb_devices = <<>>
    /\ Cardinality(wireless_targets) > 1
    /\ OpAt("invalid_selection") # {}
    /\ OpAt("getprop") # {}

\* C12: only connect is ever repeated. The listing, the mode switch and the
\* routing query appear at most once in a run; no two property queries have
\* the same device and the same property; no two interface queries name the
\* same interface; the reverse commands never outnumber the rules, the k-th
\* of them is rule k, and a run that ends with status 0 issued one per rule.
C12_NoRetry ==
    /\ Cardinality(OpAt("devices")) <= 1
    /\ Cardinality(OpAt("tcpip")) <= 1
    /\ Cardinality(OpAt("ip_route")) <= 1
    /\ \A i, j \in OpAt("getprop") :
         (trace[i].serial = trace[j].serial /\ trace[i].arg = trace[j].arg) => i = j
    /\ \A i, j \in OpAt("ip_addr") : trace[i].arg = trace[j].arg => i = j
    /\ Cardinality(OpAt("reverse")) <= Len(reverse_ports)
    /\ \A i \in OpAt("reverse") :
         LET k == Cardinality({ j \in OpAt("reverse") : j <= i }) IN
         <<trace[i].a, trace[i].b>> = reverse_ports[k]
    /\ (pc = "done" /\ exitCode = 0) =>
         Cardinality(OpAt("reverse")) = Len(reverse_ports)

\* a finished run in which two devices were named, all three interface
\* queries failed, and a reverse rule failed: every one of them asked once
C12_Witness ==
    /\ pc = "done"
    /\ exitCode = 0
    /\ Cardinality(OpAt("getprop")) = 4
    /\ Cardinality(OpAt("ip_addr")) = 3
    /\ Cardinality(OpAt("ip_route")) = 1
    /\ Cardinality(OpAt("tcpip")) = 1
    /\ OpAt("warn_reverse") # {}
    /\ Cardinality(OpAt("reverse")) = 2

\* C13: a port outside 1..65535, an --ip value that is not an IPv4 address,
\* or a missing adb executable each end the run with status 1 before any adb
\* command: such a run never gets past the checks of the arguments, issues
\* no adb command, and when it is over its status is 1.
C13_BadArgsAreFatal ==
    (\/ argPort < 1
     \/ argPort > 65535
     \/ argIpGiven /\ ~ValidIPv4(argIp)
     \/ ~adbOnPath) =>
        /\ AdbAt = {}
        /\ pc \in {"validate_port", "parse_reverse", "check_adb", "validate_ip", "done"}
        /\ pc = "done" => exitCode = 1

\* the answer is a decimal number k with 1 <= k <= n
IsIndex(answer, n) ==
    /\ Len(answer) > 0
    /\ \A i \in 1..Len(answer) :
         answer[i] \in {"0", "1", "2", "3", "4", "5", "6", "7", "8", "9"}
    /\ 1 <= StrToInt(answer)
    /\ StrToInt(answer) <= n

\* C14: selection among the USB devices. A single device is taken without a
\* read of the operator. With several, every read names the same number of
\* candidates as the listing gave, no adb command falls between two reads, an
\* answer that was read and is not a number k in 1..n is followed by
\* "Invalid selection" and the prompt again, and once an answer k in 1..n was
\* read it is the last read and the selected serial is the k-th of the listing.
C14_PromptUntilValid ==
    Len(usb_devices) > 0 =>
        /\ Len(usb_devices) = 1 =>
             /\ OpAt("input") = {}
             /\ Len(serial) > 0 => serial = usb_devices[1]
        /\ \A i \in OpAt("input") :
             /\ trace[i].a = Len(usb_devices)
             /\ \A j \in OpAt("input") : \A k \in AdbAt : ~(i < k /\ k < j)
             /\ trace[i].b = 0 =>
                  IF IsIndex(trace[i].text, Len(usb_devices))
                  THEN /\ \A j \in OpAt("input") : j <= i
                       /\ serial = usb_devices[StrToInt(trace[i].text)]
                  ELSE /\ i < Len(trace)
                       /\ trace[i + 1].op = "invalid_selection"
                       /\ pc = "prompt" \/ \E j \in OpAt("input") : j > i
        /\ (Len(usb_devices) > 1 /\ Len(serial) > 0) =>
             \E i \in OpAt("input") : IsIndex(trace[i].text, Len(usb_devices))

\* what a property query is worth: its trimmed output, or nothing when it
\* timed out or failed
QueryValue(q) == IF q.timeout \/ q.rc # 0 THEN <<>> ELSE Strip(q.stdout)

\* a name has just been resolved: result holds the outcomes of the model
\* query and of the brand query, names ends with the name made of them
JustNamed == Len(result) = 2 /\ Len(names) > 0

\* the last two adb commands are the model query and the brand query of the
\* device being named
BothQueried ==
    /\ Len(trace) >= 2
    /\ LET d == devices[Len(names)]
           n == Len(trace)
       IN  /\ trace[n - 1].op = "getprop" /\ trace[n].op = "getprop"
           /\ trace[n - 1].serial = d /\ trace[n].serial = d
           /\ trace[n - 1].arg = "ro.product.model"
           /\ trace[n].arg = "ro.product.brand"

\* C15 as stated: both queries are issued whatever they return, a query that
\* failed or timed out counts as empty, and the name is "<brand> <model>" when
\* the brand is non-empty, else the model when it is non-empty, else "Unknown".
C15_NameEmptyFields ==
    JustNamed =>
        LET model == QueryValue(result[1])
            brand == QueryValue(result[2])
        IN  /\ pc \in {"select_device", "select_wireless"} => BothQueried
            /\ names[Len(names)] =
                 IF Len(brand) > 0 THEN brand \o <<" ">> \o model
                 ELSE IF Len(model) > 0 THEN model
                 ELSE Unknown

\* C15 (amended): both queries are issued whatever they return; a brand query
\* that failed, timed out or returned nothing gives an empty brand, a model
\* query that did so gives the model "Unknown"; the name is "<brand> <model>"
\* when the brand is non-empty and the model alone otherwise.
C15_NameUnknownModel ==
    JustNamed =>
        LET model == IF Len(QueryValue(result[1])) > 0
                     THEN QueryValue(result[1]) ELSE Unknown
            brand == QueryValue(result[2])
        IN  /\ pc \in {"select_device", "select_wireless"} => BothQueried
            /\ names[Len(names)] =
                 IF Len(brand) > 0 THEN brand \o <<" ">> \o model ELSE model

\* the model query timed out, the brand query answered "g": the name is
\* "g Unknown"
C15_Witness ==
    /\ JustNamed
    /\ BothQueried
    /\ result[1].timeout
    /\ QueryValue(result[2]) = <<"g">>
    /\ names[Len(names)] = <<"g", " ">> \o Unknown

\* the valid IPv4 addresses a line of "ip addr show" gives: the text between
\* an "inet" word and the "/" of the word after it
InetAddrs(line) ==
    UNION { { SubSeq(line[i + 1], 1, n - 1) :
                n \in { n \in 1..Len(line[i + 1]) :
                          /\ line[i + 1][n] = "/"
                          /\ ValidIPv4(SubSeq(line[i + 1], 1, n - 1)) } } :
            i \in { i \in 1..(Len(line) - 1) : line[i] = WInet } }

\* the valid IPv4 address a line of "ip route" gives: the word after the
\* first "src" that is followed by one
SrcAddrs(line) ==
    { line[i + 1] :
        i \in { i \in 1..(Len(line) - 1) :
                  /\ line[i] = WSrc /\ ValidIPv4(line[i + 1])
                  /\ \A j \in 1..(i - 1) : ~(line[j] = WSrc /\ ValidIPv4(line[j + 1])) } }

\* the addresses of the first line of a query's output that gives any; none
\* when the query timed out or failed
FirstAddrs(q, addrs(_)) ==
    IF q.timeout \/ q.rc # 0 THEN {}
    ELSE LET hits == { k \in 1..Len(q.lines) : addrs(q.lines[k]) # {} } IN
         IF hits = {} THEN {}
         ELSE addrs(q.lines[CHOOSE k \in hits : \A j \in hits : k <= j])

\* the interface queries issued so far, in order
IfaceCmds == SelectSeq(trace, LAMBDA e : e.op = "ip_addr")

\* C16: the interface queries go to wlan0, wlan1, wifi0 in that order. Right
\* after one of them, the address is its first valid IPv4 address if it has
\* one and resolution is over, and otherwise (timeout and failure included) nothing is resolved and
\* the next interface, or after wifi0 the routing table, is up. The routing
\* query comes only after all three interface queries. Right after it the
\* address is its first valid one; and the report that no address was found
\* follows a routing query that gave none (timeout included) and ends the run
\* with status 1, with no tcpip and no connect command.
C16_AddressResolution ==
    /\ Len(IfaceCmds) <= Len(Ifaces)
    /\ \A k \in 1..Len(IfaceCmds) : IfaceCmds[k].arg = Ifaces[k]
    /\ \A i \in OpAt("ip_route") :
         /\ Cardinality({ j \in OpAt("ip_addr") : j < i }) = 3
         /\ \A j \in OpAt("ip_addr") : j < i
    /\ (Len(trace) > 0 /\ trace[Len(trace)].op = "ip_addr") =>
         LET found == FirstAddrs(result[1], InetAddrs) IN
         IF found # {}
         THEN pc \notin {"get_ip", "get_ip_route", "done"} /\ ip \in found
         ELSE /\ ip = <<>>
              /\ exitCode = -1
              /\ IF Len(IfaceCmds) < 3
                 THEN pc = "get_ip" /\ iface = Len(IfaceCmds) + 1
                 ELSE pc = "get_ip_route"
    /\ (Len(trace) > 0 /\ trace[Len(trace)].op = "ip_route") =>
         /\ FirstAddrs(result[1], SrcAddrs) # {}
         /\ pc \notin {"get_ip", "get_ip_route", "done"}
         /\ ip \in FirstAddrs(result[1], SrcAddrs)
    /\ \A i \in OpAt("err_no_ip") :
         /\ i = Len(trace)
         /\ trace[i - 1].op = "ip_route"
         /\ FirstAddrs(result[1], SrcAddrs) = {}
         /\ pc = "done"
         /\ exitCode = 1
         /\ OpAt("tcpip") = {}
         /\ OpAt("connect") = {}

\* all three interfaces and the routing table were asked, the routing query
\* timed out, the run ended with status 1
C16_Witness ==
    /\ OpAt("err_no_ip") # {}
    /\ Len(IfaceCmds) = 3
    /\ result[1].timeout
    /\ pc = "done"
    /\ exitCode = 1

\* a line of the listing with exactly two fields, the second one "device"
ReadyLine(fields) == Len(fields) = 2 /\ fields[2] = <<"d", "e", "v", "i", "c", "e">>

\* the first field has a colon in it
HasColon(fields) == \E n \in 1..Len(fields[1]) : fields[1][n] = ":"

\* C17: after a listing that exited with 0, the USB list is the first fields
\* of the ready lines without a colon, in the order of the lines, and the
\* network set is the first fields of the ready lines with a colon; no other
\* line contributes. After a listing that exited with another status the run
\* is over with status 1, it has no USB device and no network device, and the
\* listing is its only adb command.
C17_ListingParsed ==
    \A i \in OpAt("devices") :
        LET lines == trace[i].text
            usbLines == SelectSeq(lines, LAMBDA l : ReadyLine(l) /\ ~HasColon(l))
            netAt == { k \in 1..Len(lines) : ReadyLine(lines[k]) /\ HasColon(lines[k]) }
        IN  IF trace[i].b = 0
            THEN /\ usb_devices = [k \in 1..Len(usbLines) |-> usbLines[k][1]]
                 /\ wireless_targets = { lines[k][1] : k \in netAt }
            ELSE /\ pc = "done"
                 /\ exitCode = 1
                 /\ usb_devices = <<>>
                 /\ wireless_targets = {}
                 /\ AdbAt = {i}

\* the listing A1 device / C3 offline / B2 device gave the USB list A1, B2
C17_Witness ==
    /\ \E i \in OpAt("devices") :
         /\ trace[i].b = 0
         /\ \E k \in 1..Len(trace[i].text) : trace[i].text[k] = <<SerC, WOffline>>
    /\ usb_devices = <<SerA, SerB>>
    /\ wireless_targets = {}

\* the text of the failure report of _connect
FailureText == trace[Len(trace)].text

\* C18 as stated: when the handshake gives up, its report carries, unchanged,
\* the standard output and standard error of the last connect attempt.
C18_ReportsLastOutputVerbatim ==
    ConnectFailed => FailureText = result[1].stdout \o result[1].stderr

\* C18 (amended): when the handshake gives up, its report carries the words
\* "connection timed out" if the last connect attempt timed out, and
\* otherwise the standard output and standard error of that attempt without
\* the white space at either end; it names the target of the attempts.
C18_ReportsLastOutcome ==
    ConnectFailed =>
        /\ FailureText = IF result[1].timeout
                         THEN <<"connection", "timed", "out">>
                         ELSE StripText(result[1].stdout \o result[1].stderr)
        /\ \A i \in OpAt("connect") : trace[i].target = trace[Len(trace)].target

\* the handshake gave up after several attempts, the last of which timed out
C18_Witness ==
    /\ ConnectFailed
    /\ result[1].timeout
    /\ Cardinality(OpAt("connect")) >= 3
    /\ FailureText = <<"connection", "timed", "out">>

\* C19: the handshake never ends, either way, without a connect attempt: the
\* deadline is looked at only right after an attempt, so the failure report
\* directly follows one. With a wait of half a second after each failed
\* attempt a run makes at most 11 attempts. An attempt other than the first
\* is made only when the clock read after the one before it was strictly
\* before the deadline of 5 seconds (10 ticks of half a second), and comes at
\* least one tick after it, so the k-th attempt never starts before tick k - 1.
C19_AttemptBudget ==
    /\ (pc \in {"connect_check", "connected"} \/ ConnectFailed) => OpAt("connect") # {}
    /\ pc \in {"connect_check", "connected"} => trace[Len(trace)].op = "connect"
    /\ ConnectFailed => trace[Len(trace) - 1].op = "connect"
    /\ Cardinality(OpAt("connect")) <= 11
    /\ (pc = "connect_try" /\ OpAt("connect") # {}) => now - 1 < 10
    /\ pc = "connect_try" => Cardinality(OpAt("connect")) <= now

\* the handshake gave up after 11 attempts
C19_Witness ==
    /\ ConnectFailed
    /\ Cardinality(OpAt("connect")) = 11

\* the USB device the operator's answer (or the lack of a choice) designates:
\* the only one listed, or the k-th listed when the answer k was read; empty
\* while none is designated
ChosenUsb ==
    IF Len(usb_devices) = 1 THEN usb_devices[1]
    ELSE LET picks == { i \in OpAt("input") : IsIndex(trace[i].text, Len(usb_devices)) }
         IN  IF picks = {} THEN <<>>
             ELSE usb_devices[StrToInt(trace[CHOOSE i \in picks : TRUE].text)]

\* C20: when the listing has USB devices, the interface queries, the routing
\* query and the tcpip command all carry the serial of the designated USB
\* device; every connect goes to "<address>:<port>" with the address that
\* was resolved and the port that tcpip was given; every reverse command
\* carries that same "<address>:<port>" and never a USB serial; names are
\* only asked of USB devices and every read is a choice among the USB
\* devices, so no device of the network set is ever the selected one.
C20_OneTargetThroughout ==
    Len(usb_devices) > 0 =>
        /\ \A i \in OpAt("ip_addr") \cup OpAt("ip_route") \cup OpAt("tcpip") :
             trace[i].serial = ChosenUsb
        /\ Len(serial) > 0 => serial = ChosenUsb
        /\ \A i \in OpAt("tcpip") : trace[i].a = argPort
        /\ \A j \in OpAt("connect") :
             /\ Len(ip) > 0
             /\ \E i \in OpAt("tcpip") :
                  i < j /\ trace[j].target = ip \o <<":">> \o IntToStr(trace[i].a)
        /\ \A i \in OpAt("reverse") :
             /\ trace[i].serial = ip \o <<":">> \o IntToStr(argPort)
             /\ \A k \in 1..Len(usb_devices) : trace[i].serial # usb_devices[k]
        /\ \A i \in OpAt("getprop") :
             \E k \in 1..Len(usb_devices) : trace[i].serial = usb_devices[k]
        /\ \A i \in OpAt("input") : trace[i].a = Len(usb_devices)
        /\ Len(target) > 0 => (Len(serial) > 0 /\ target = ip \o <<":">> \o IntToStr(argPort))

\* of two USB devices the second was chosen; its address was resolved, tcpip
\* and connect were issued and a reverse rule applied
C20_Witness ==
    /\ usb_devices = <<SerA, SerB>>
    /\ ChosenUsb = SerB
    /\ OpAt("tcpip") # {}
    /\ OpAt("connect") # {}
    /\ OpAt("reverse") # {}
    /\ pc = "done"
    /\ exitCode = 0

====
